---- MODULE Spec2Model ----
(***************************************************************************)
(* Model of the dotfiles-m1 operator scripts: the ScriptLogger logging     *)
(* facade (scripts/python/script_logger.py) and the command runners of     *)
(* the orchestration scripts (scripts/python/pg_upgrade.py,                *)
(* scripts/python/update.py, scripts/pg_upgrade.py).                       *)
(*                                                                         *)
(* SpecLogger explores the logger registry under arbitrary constructor     *)
(* and logging calls.  SpecScript explores one run of one script, each     *)
(* external command ending in any of the outcomes a child can have.        *)
(***************************************************************************)
EXTENDS Integers, Sequences, FiniteSets, TLC

VARIABLES
    registry,    \* logging's name -> Logger table: level, propagate, handlers
    objects,     \* names for which a ScriptLogger object has been returned
    lastCall,    \* the most recent facade call, its arguments and its outcome
    emitted,     \* what the most recent logging call handed to each sink
    firstSinks,  \* per name: number of sinks after its first construction, -1 before
    script,      \* the script this process runs ("none": no script, facade calls only)
    pc,          \* the step of the script's main that runs next
    proc,        \* the process: its trace of log lines and child starts, how it ended
    fs,          \* the files the script touches: the backup file, the new data directory
    lastRun,     \* the most recent command runner call and what it did
    disk,        \* symlinks.py: the filesystem entries it reads and writes
    linking      \* symlinks.py: the loop over path_pairs, its latest create_symlink call

loggerVars == <<registry, objects, lastCall, emitted, firstSinks>>

linkVars == <<disk, linking>>

scriptVars == <<script, pc, proc, fs, lastRun, disk, linking>>

vars == <<registry, objects, lastCall, emitted, firstSinks, script, pc, proc, fs,
          lastRun, disk, linking>>

-----------------------------------------------------------------------------
(* The logging levels (the standard library's numeric values). *)

NOTSET == 0
DEBUG == 10
INFO == 20
WARNING == 30
ERROR == 40
CRITICAL == 50

Levels == {DEBUG, INFO, WARNING, ERROR, CRITICAL}

\* The thresholds constructor calls are explored with: the lowest, the default
\* and one that the six severity methods fall below, on and above.
CtorLevels == {DEBUG, INFO, ERROR}

\* The root logger's level, which a logger whose own level is NOTSET inherits.
RootLevel == WARNING

getLevelName(levelno) ==
    CASE levelno = DEBUG -> "DEBUG"
      [] levelno = INFO -> "INFO"
      [] levelno = WARNING -> "WARNING"
      [] levelno = ERROR -> "ERROR"
      [] levelno = CRITICAL -> "CRITICAL"
      [] OTHER -> "Level"

\* ScriptLogger.level_colors and ScriptLogger.reset_code.
level_colors ==
    (DEBUG :> "ESC[36m") @@ (INFO :> "ESC[32m") @@ (WARNING :> "ESC[33m")
        @@ (ERROR :> "ESC[31m") @@ (CRITICAL :> "ESC[35m")

reset_code == "ESC[0m"

EscapeTokens == {level_colors[l] : l \in DOMAIN level_colors} \cup {reset_code}

-----------------------------------------------------------------------------
(* The environment: logger names and log file paths. *)

\* Loggers registered under different names share nothing that the facade
\* reads or writes, so the registry is explored under the one name that both
\* configuring code paths (ScriptLogger and update.py's main) can reach.
Names == {"update"}

\* A path whose FileHandler can be opened, and one whose open raises OSError
\* (missing parent directory, no write permission).
GoodPath == "logs/ok.log"
BadPath == "logs-missing/no.log"
FilePaths == {GoodPath, BadPath}

CanOpen(path) == path = GoodPath

\* A logger as logging.getLogger(name) first creates it.
NewLogger == [level |-> NOTSET, propagate |-> TRUE, handlers |-> <<>>]

\* The keyword arguments of ScriptLogger.__init__.  log_to_file "None" and
\* formatter "None" stand for the Python None defaults.
CtorArgs ==
    [level : CtorLevels,
     log_to_console : BOOLEAN,
     log_to_file : {"None"} \cup FilePaths,
     propagate : BOOLEAN,
     formatter : {"None", "custom"},
     colorize : BOOLEAN]

NoArgs ==
    [level |-> INFO, log_to_console |-> FALSE, log_to_file |-> "None",
     propagate |-> FALSE, formatter |-> "None", colorize |-> FALSE]

-----------------------------------------------------------------------------
(* Formatting.  A line is a sequence of tokens; a record carries its level *)
(* name as a token sequence because _LevelColorFormatter rewrites it.      *)

makeRecord(levelno, exc_info) ==
    [levelno |-> levelno, levelname |-> <<getLevelName(levelno)>>,
     exc_info |-> exc_info]

\* logging.Formatter.format under msg_format "%(asctime)s [%(levelname)s]
\* %(message)s"; a caller-supplied formatter is any other plain template.
Formatter_format(fmt, record) ==
    LET body ==
            IF fmt = "custom"
            THEN record.levelname \o <<":", "message">>
            ELSE <<"asctime", " ", "[">> \o record.levelname
                     \o <<"]", " ", "message">>
    IN  IF record.exc_info THEN body \o <<"\n", "traceback">> ELSE body

\* _LevelColorFormatter.format without the finally clause (a fault to detect).
LevelColorFormatter_format_norestore(record) ==
    LET original_levelname == record.levelname
        colored ==
            IF record.levelno \in DOMAIN level_colors
            THEN [record EXCEPT !.levelname =
                     <<level_colors[record.levelno]>> \o original_levelname
                         \o <<reset_code>>]
            ELSE record
    IN  [line |-> Formatter_format("default", colored), record |-> colored]

\* _LevelColorFormatter.format: colour the level name, format, restore it.
LevelColorFormatter_format(record) ==
    LET original_levelname == record.levelname
        colored ==
            IF record.levelno \in DOMAIN level_colors
            THEN [record EXCEPT !.levelname =
                     <<level_colors[record.levelno]>> \o original_levelname
                         \o <<reset_code>>]
            ELSE record
    IN  [line |-> Formatter_format("default", colored),
         record |-> [colored EXCEPT !.levelname = original_levelname]]

\* One handler formatting the shared record: the line and the record after.
handlerFormat(h, record) ==
    IF h.formatter = "color"
    THEN LevelColorFormatter_format(record)
    ELSE [line |-> Formatter_format(h.formatter, record), record |-> record]

\* Logger.callHandlers: the handlers in attachment order, one shared record.
RECURSIVE callHandlers(_, _, _)
callHandlers(handlers, record, out) ==
    IF handlers = <<>>
    THEN out
    ELSE LET h == Head(handlers)
             r == handlerFormat(h, record)
         IN  callHandlers(Tail(handlers), r.record,
                 Append(out, [kind |-> h.kind, target |-> h.target,
                              line |-> r.line]))

-----------------------------------------------------------------------------
(* ScriptLogger construction. *)

StreamHandler(formatter) ==
    [kind |-> "console", target |-> "stdout", formatter |-> formatter]

FileHandler(path, formatter) ==
    [kind |-> "file", target |-> path, formatter |-> formatter]

\* ScriptLogger._configure without its handlers guard (a fault to detect).
_configure_noguard(logger, self, to_console, to_file) ==
    LET l1 == [logger EXCEPT !.level = self.level,
                             !.propagate = self.propagate]
        l2 == IF to_console
              THEN [l1 EXCEPT !.handlers = Append(@,
                       StreamHandler(IF self.colorize THEN "color"
                                     ELSE self.formatter))]
              ELSE l1
    IN  IF to_file = "None"
        THEN [logger |-> l2, raised |-> "none", opens |-> 0]
        ELSE IF CanOpen(to_file)
        THEN [logger |-> [l2 EXCEPT !.handlers =
                             Append(@, FileHandler(to_file, self.formatter))],
              raised |-> "none", opens |-> 1]
        ELSE [logger |-> l2, raised |-> "OSError", opens |-> 1]

\* ScriptLogger._configure checking for handlers only after it has set the
\* level and the propagate flag (a fault to detect).
_configure_relevel(logger, self, to_console, to_file) ==
    LET l1 == [logger EXCEPT !.level = self.level,
                             !.propagate = self.propagate]
    IN  IF logger.handlers # <<>>
        THEN [logger |-> l1, raised |-> "none", opens |-> 0]
        ELSE _configure_noguard(logger, self, to_console, to_file)

\* ScriptLogger._configure swallowing the failed open (a fault to detect).
_configure_swallow(logger, self, to_console, to_file) ==
    LET c == _configure_noguard(logger, self, to_console, to_file)
    IN  IF logger.handlers # <<>>
        THEN [logger |-> logger, raised |-> "none", opens |-> 0]
        ELSE [c EXCEPT !.raised = "none"]

\* ScriptLogger._configure: nothing when the logger already has a handler;
\* otherwise level, propagate, the console handler and then the file handler,
\* whose open (logging.FileHandler, delay=False) may raise OSError after the
\* console handler is already attached.
_configure(logger, self, to_console, to_file) ==
    IF logger.handlers # <<>>
    THEN [logger |-> logger, raised |-> "none", opens |-> 0]
    ELSE LET l1 == [logger EXCEPT !.level = self.level,
                                  !.propagate = self.propagate]
             l2 == IF to_console
                   THEN [l1 EXCEPT !.handlers = Append(@,
                            StreamHandler(IF self.colorize THEN "color"
                                          ELSE self.formatter))]
                   ELSE l1
         IN  IF to_file = "None"
             THEN [logger |-> l2, raised |-> "none", opens |-> 0]
             ELSE IF CanOpen(to_file)
             THEN [logger |-> [l2 EXCEPT !.handlers =
                                  Append(@, FileHandler(to_file, self.formatter))],
                   raised |-> "none", opens |-> 1]
             ELSE [logger |-> l2, raised |-> "OSError", opens |-> 1]

\* ScriptLogger.__init__: look the logger up by name, keep the arguments on
\* the object, configure.
ScriptLogger_init(reg, name, args) ==
    LET self == [level |-> args.level,
                 propagate |-> args.propagate,
                 formatter |-> IF args.formatter = "None" THEN "default"
                               ELSE args.formatter,
                 colorize |-> args.colorize]
        c == _configure(reg[name], self, args.log_to_console, args.log_to_file)
    IN  [registry |-> [reg EXCEPT ![name] = c.logger],
         raised |-> c.raised, opens |-> c.opens]

\* ScriptLogger.log_to_console: the arguments it passes on.
ScriptLogger_log_to_console(level, propagate, colorize) ==
    [level |-> level, log_to_console |-> TRUE, log_to_file |-> "None",
     propagate |-> propagate, formatter |-> "None", colorize |-> colorize]

\* ScriptLogger.log_to_console_and_file: the arguments it passes on.
ScriptLogger_log_to_console_and_file(log_file, level, propagate, colorize) ==
    [level |-> level, log_to_console |-> TRUE, log_to_file |-> log_file,
     propagate |-> propagate, formatter |-> "None", colorize |-> colorize]

\* update.py main: the module's LOGGER configured once, console only.
update_configure(logger) ==
    IF logger.handlers = <<>>
    THEN [logger EXCEPT !.level = INFO, !.propagate = FALSE,
                        !.handlers = Append(@, StreamHandler("default"))]
    ELSE logger

-----------------------------------------------------------------------------
(* Logging calls. *)

Methods == {"debug", "info", "warning", "critical", "error", "exception"}

\* ScriptLogger.critical forwarding to Logger.error (a fault to detect).
method_level_slip(method) ==
    CASE method = "debug" -> DEBUG
      [] method = "info" -> INFO
      [] method = "warning" -> WARNING
      [] method = "critical" -> ERROR
      [] method = "error" -> DEBUG
      [] method = "exception" -> ERROR

\* ScriptLogger.debug/info/warning/critical/error/exception: the level of the
\* logging.Logger method each forwards to (Logger.exception logs at ERROR).
method_level(method) ==
    CASE method = "debug" -> DEBUG
      [] method = "info" -> INFO
      [] method = "warning" -> WARNING
      [] method = "critical" -> CRITICAL
      [] method = "error" -> ERROR
      [] method = "exception" -> ERROR

\* Logger.getEffectiveLevel: NOTSET defers to the ancestor (the root).
getEffectiveLevel(logger) ==
    IF logger.level # NOTSET THEN logger.level ELSE RootLevel

\* Logger.<method>: isEnabledFor, then every attached handler (handler levels
\* are left at NOTSET by _configure), then the ancestors when propagate is set.
Logger_log(logger, levelno, exc_info) ==
    IF levelno >= getEffectiveLevel(logger)
    THEN [sinks |-> callHandlers(logger.handlers,
                        makeRecord(levelno, exc_info), <<>>),
          toParent |-> logger.propagate]
    ELSE [sinks |-> <<>>, toParent |-> FALSE]

NothingEmitted == [sinks |-> <<>>, toParent |-> FALSE]

-----------------------------------------------------------------------------
(* Child processes and the command runners. *)

\* The largest exit code a child is explored with.
MaxExit == 3

\* How a child can end: it could not be launched (binary not found,
\* permission denied), or it ran and exited with a return code.
Outcomes ==
    {[launched |-> FALSE, returncode |-> 0]}
        \cup {[launched |-> TRUE, returncode |-> c] : c \in 0..MaxExit}

NoOutcome == [launched |-> FALSE, returncode |-> 0]

\* A process that has just started: nothing traced, still running, no exit
\* status yet and no child run yet (returncode is that of the latest child,
\* children the commands launched so far, each with its return code).
NewProc == [trace |-> <<>>, term |-> "running", exitStatus |-> -1,
            fault |-> "none", returncode |-> -1, children |-> <<>>]

LogEvent(level, msg, cmd) ==
    [kind |-> "log", level |-> level, msg |-> msg, cmd |-> cmd]

ExecEvent(cmd) ==
    [kind |-> "exec", level |-> NOTSET, msg |-> "child", cmd |-> cmd]

\* logger.<level>(msg): a line reaches the trace when the logger hands the
\* record to at least one sink.
logLine(p, logger, level, msg, cmd) ==
    IF Logger_log(logger, level, FALSE).sinks # <<>>
    THEN [p EXCEPT !.trace = Append(@, LogEvent(level, msg, cmd))]
    ELSE p

\* sys.exit(code): the process ends with that status.
sys_exit(p, code) ==
    [p EXCEPT !.term = "sys_exit", !.exitStatus = code % 256]

\* An exception nothing catches: traceback, interpreter exit status 1.
uncaught(p, exc) ==
    [p EXCEPT !.term = "uncaught", !.fault = exc, !.exitStatus = 1]

\* subprocess.run(cmd, check=check): OSError when the child cannot be
\* launched, CalledProcessError when check is set and it exits non-zero.
subprocess_run(p, cmd, out, check) ==
    [proc |-> IF out.launched
              THEN [p EXCEPT !.trace = Append(@, ExecEvent(cmd)),
                             !.returncode = out.returncode,
                             !.children = Append(@,
                                 [cmd |-> cmd, returncode |-> out.returncode])]
              ELSE p,
     raised |-> IF ~out.launched THEN "OSError"
                ELSE IF check /\ out.returncode # 0 THEN "CalledProcessError"
                ELSE "none",
     returncode |-> out.returncode]

\* pg_upgrade.py run_cmd catching every exception (a fault to detect).
pg_run_cmd_catchall(p, logger, cmd, out) ==
    LET p1 == logLine(p, logger, INFO, "Running", cmd)
        r == subprocess_run(p1, cmd, out, TRUE)
    IN  IF r.raised # "none"
        THEN sys_exit(logLine(r.proc, logger, ERROR,
                              "Command failed with exit code", cmd),
                      IF out.launched THEN r.returncode ELSE 1)
        ELSE r.proc

\* pg_upgrade.py run_cmd logging the failure but not exiting (a fault to detect).
pg_run_cmd_noexit(p, logger, cmd, out) ==
    LET p1 == logLine(p, logger, INFO, "Running", cmd)
        r == subprocess_run(p1, cmd, out, TRUE)
    IN  CASE r.raised = "CalledProcessError" ->
                logLine(r.proc, logger, ERROR,
                        "Command failed with exit code", cmd)
          [] r.raised = "OSError" -> uncaught(r.proc, "OSError")
          [] OTHER -> r.proc

\* scripts/python/pg_upgrade.py run_cmd.
pg_run_cmd(p, logger, cmd, out) ==
    LET p1 == logLine(p, logger, INFO, "Running", cmd)
        r == subprocess_run(p1, cmd, out, TRUE)
    IN  CASE r.raised = "CalledProcessError" ->
                sys_exit(logLine(r.proc, logger, ERROR,
                                 "Command failed with exit code", cmd),
                         r.returncode)
          [] r.raised = "OSError" -> uncaught(r.proc, "OSError")
          [] OTHER -> r.proc

\* update.py run_cmd exiting even when ignore_errors is set (a fault to detect).
update_run_cmd_noignore(p, logger, cmd, out, ignore_errors) ==
    LET r == subprocess_run(p, cmd, out, TRUE)
    IN  CASE r.raised = "CalledProcessError" ->
                sys_exit(logLine(r.proc, logger, ERROR,
                                 "Command failed with exit code", cmd),
                         r.returncode)
          [] r.raised = "OSError" -> uncaught(r.proc, "OSError")
          [] OTHER -> r.proc

\* update.py run_cmd exiting with status 1 whatever the child's code was (a
\* fault to detect).
update_run_cmd_exit1(p, logger, cmd, out, ignore_errors) ==
    LET r == subprocess_run(p, cmd, out, TRUE)
    IN  CASE r.raised = "CalledProcessError" ->
                IF ignore_errors
                THEN logLine(r.proc, logger, WARNING, "Command exited with", cmd)
                ELSE sys_exit(logLine(r.proc, logger, ERROR,
                                      "Command failed with exit code", cmd),
                              1)
          [] r.raised = "OSError" -> uncaught(r.proc, "OSError")
          [] OTHER -> r.proc

\* scripts/python/update.py run_cmd.
update_run_cmd(p, logger, cmd, out, ignore_errors) ==
    LET r == subprocess_run(p, cmd, out, TRUE)
    IN  CASE r.raised = "CalledProcessError" ->
                IF ignore_errors
                THEN logLine(r.proc, logger, WARNING, "Command exited with", cmd)
                ELSE sys_exit(logLine(r.proc, logger, ERROR,
                                      "Command failed with exit code", cmd),
                              r.returncode)
          [] r.raised = "OSError" -> uncaught(r.proc, "OSError")
          [] OTHER -> r.proc

\* scripts/pg_upgrade.py run: no except clause at all.
legacy_run(p, logger, cmd, out) ==
    LET p1 == logLine(p, logger, INFO, "Running", cmd)
        r == subprocess_run(p1, cmd, out, TRUE)
    IN  IF r.raised # "none" THEN uncaught(r.proc, r.raised) ELSE r.proc

\* The runner each pg_upgrade script calls.
run_of(scr, p, logger, cmd, out) ==
    IF scr = "legacy" THEN legacy_run(p, logger, cmd, out)
    ELSE pg_run_cmd(p, logger, cmd, out)

runner_of(scr) ==
    CASE scr = "legacy" -> "run"
      [] scr = "update" -> "update.run_cmd"
      [] OTHER -> "pg_upgrade.run_cmd"

\* The record kept of a runner call: the slice of the trace it produced.
RunRecord(runner, cmd, ignore_errors, out, before, after) ==
    [runner |-> runner, cmd |-> cmd, ignore_errors |-> ignore_errors,
     out |-> out,
     lines |-> SubSeq(after.trace, Len(before.trace) + 1, Len(after.trace)),
     returned |-> after.term = "running"]

NoRun ==
    [runner |-> "none", cmd |-> "none", ignore_errors |-> FALSE,
     out |-> NoOutcome, lines |-> <<>>, returned |-> FALSE]

NewFs == [backup_file |-> "absent", new_datadir |-> "absent"]

-----------------------------------------------------------------------------
(* scripts/python/symlinks.py: the filesystem entries create_symlink sees. *)

\* How many of main's path_pairs are explored, and how many times the
\* script is run over the same home directory.
MaxPairs == 2

MaxRuns == 2

NoPath == <<"none", 0>>

\* A directory entry: nothing, a regular file, a real directory with its
\* entries, or a symbolic link with the path it names.
Absent == [type |-> "absent", target |-> NoPath, entries |-> {}]

RegularFile == [type |-> "file", target |-> NoPath, entries |-> {}]

Directory(entries) == [type |-> "dir", target |-> NoPath, entries |-> entries]

Symlink(target) == [type |-> "symlink", target |-> target, entries |-> {}]

\* main's path_pairs: sources in the repository, destinations in HOME.
path_pairs ==
    [i \in 1..MaxPairs |-> [src |-> <<"repo", i>>, dst |-> <<"home", i>>]]

\* Paths outside any pair that a destination may already point at: a file,
\* a directory with contents, and a name with nothing behind it.
OtherFile == <<"elsewhere", 1>>

OtherDir == <<"elsewhere", 2>>

Missing == <<"elsewhere", 3>>

Paths ==
    {path_pairs[i].src : i \in 1..MaxPairs}
        \cup {path_pairs[i].dst : i \in 1..MaxPairs}
        \cup {OtherFile, OtherDir, Missing}

NoDisk == [nodes |-> <<>>, home_writable |-> TRUE]

NoLink == [next |-> 0, runs |-> 0, pair |-> 0, pre |-> NoDisk, post |-> NoDisk,
           raised |-> "none"]

\* os.stat: the entry a path leads to once symbolic links are followed;
\* nothing when the chain dangles or does not end.
RECURSIVE stat(_, _, _)
stat(nodes, path, hops) ==
    IF path \notin DOMAIN nodes THEN Absent
    ELSE IF nodes[path].type # "symlink" THEN nodes[path]
    ELSE IF hops = 0 THEN Absent
    ELSE stat(nodes, nodes[path].target, hops - 1)

\* pathlib.Path.exists, is_dir (both follow links) and is_symlink.
Path_exists(d, path) ==
    stat(d.nodes, path, Cardinality(DOMAIN d.nodes)).type # "absent"

Path_is_dir(d, path) ==
    stat(d.nodes, path, Cardinality(DOMAIN d.nodes)).type = "dir"

Path_is_symlink(d, path) == d.nodes[path].type = "symlink"

\* pathlib.Path.unlink: removes the name itself, never what a link names.
Path_unlink(d, path) ==
    CASE d.nodes[path].type = "absent" ->
            [disk |-> d, raised |-> "FileNotFoundError"]
      [] d.nodes[path].type = "dir" \/ ~d.home_writable ->
            [disk |-> d, raised |-> "PermissionError"]
      [] OTHER ->
            [disk |-> [d EXCEPT !.nodes[path] = Absent], raised |-> "none"]

\* shutil.rmtree: refuses a symbolic link; empties the directory and then
\* removes it, which needs write permission on its parent.
shutil_rmtree(d, path) ==
    CASE d.nodes[path].type = "symlink" ->
            [disk |-> d, raised |-> "OSError"]
      [] d.nodes[path].type = "absent" ->
            [disk |-> d, raised |-> "FileNotFoundError"]
      [] d.nodes[path].type = "file" ->
            [disk |-> d, raised |-> "NotADirectoryError"]
      [] ~d.home_writable ->
            [disk |-> [d EXCEPT !.nodes[path] = Directory({})],
             raised |-> "PermissionError"]
      [] OTHER ->
            [disk |-> [d EXCEPT !.nodes[path] = Absent], raised |-> "none"]

\* pathlib.Path.symlink_to: a new link at path naming target.
Path_symlink_to(d, path, target) ==
    CASE d.nodes[path].type # "absent" ->
            [disk |-> d, raised |-> "FileExistsError"]
      [] ~d.home_writable ->
            [disk |-> d, raised |-> "PermissionError"]
      [] OTHER ->
            [disk |-> [d EXCEPT !.nodes[path] = Symlink(target)],
             raised |-> "none"]

\* SymlinkPair.__post_init__: the source must exist.
SymlinkPair_post_init(d, pair) ==
    IF Path_exists(d, pair.src) THEN "none" ELSE "FileNotFoundError"

\* create_symlink removing the destination only when exists() says so, which
\* overlooks a dangling link (a fault to detect).
create_symlink_exists_only(d, pair) ==
    LET removed ==
            IF Path_exists(d, pair.dst)
            THEN IF Path_is_dir(d, pair.dst) /\ ~Path_is_symlink(d, pair.dst)
                 THEN shutil_rmtree(d, pair.dst)
                 ELSE Path_unlink(d, pair.dst)
            ELSE [disk |-> d, raised |-> "none"]
    IN  IF removed.raised # "none" THEN removed
        ELSE Path_symlink_to(removed.disk, pair.dst, pair.src)

\* create_symlink: remove whatever is at dst, then link dst to src.
create_symlink(d, pair) ==
    LET removed ==
            IF Path_exists(d, pair.dst) \/ Path_is_symlink(d, pair.dst)
            THEN IF Path_is_dir(d, pair.dst) /\ ~Path_is_symlink(d, pair.dst)
                 THEN shutil_rmtree(d, pair.dst)
                 ELSE Path_unlink(d, pair.dst)
            ELSE [disk |-> d, raised |-> "none"]
    IN  IF removed.raised # "none" THEN removed
        ELSE Path_symlink_to(removed.disk, pair.dst, pair.src)

-----------------------------------------------------------------------------
(* The logger registry under arbitrary calls. *)

NoCall ==
    [op |-> "none", name |-> "none", args |-> NoArgs, method |-> "none",
     result |-> "none", opens |-> 0, pre |-> NewLogger]

InitLogger ==
    /\ registry = [n \in Names |-> NewLogger]
    /\ objects = {}
    /\ lastCall = NoCall
    /\ emitted = NothingEmitted
    /\ firstSinks = [n \in Names |-> -1]
    /\ script = "none"
    /\ pc = "idle"
    /\ proc = NewProc
    /\ fs = NewFs
    /\ lastRun = NoRun
    /\ disk = NoDisk
    /\ linking = NoLink

\* One constructor call, direct or through a convenience classmethod.
Constructed(op, name, args) ==
    LET r == ScriptLogger_init(registry, name, args)
    IN  /\ registry' = r.registry
        /\ objects' = IF r.raised = "none" THEN objects \cup {name} ELSE objects
        /\ lastCall' = [op |-> op, name |-> name, args |-> args,
                        method |-> "none",
                        result |-> IF r.raised = "none" THEN "returned"
                                   ELSE r.raised,
                        opens |-> r.opens,
                        pre |-> registry[name]]
        /\ emitted' = NothingEmitted
        /\ firstSinks' =
               IF firstSinks[name] = -1
               THEN [firstSinks EXCEPT ![name] = Len(r.registry[name].handlers)]
               ELSE firstSinks

Construct ==
    \E name \in Names, args \in CtorArgs :
        Constructed("ScriptLogger", name, args)

ConstructConsole ==
    \E name \in Names, level \in CtorLevels, propagate \in BOOLEAN,
       colorize \in BOOLEAN :
        Constructed("log_to_console", name,
            ScriptLogger_log_to_console(level, propagate, colorize))

ConstructConsoleAndFile ==
    \E name \in Names, log_file \in FilePaths, level \in CtorLevels,
       propagate \in BOOLEAN, colorize \in BOOLEAN :
        Constructed("log_to_console_and_file", name,
            ScriptLogger_log_to_console_and_file(log_file, level, propagate,
                                                 colorize))

UpdateMainConfigure ==
    /\ registry' = [registry EXCEPT !["update"] = update_configure(@)]
    /\ lastCall' = [op |-> "update_main", name |-> "update", args |-> NoArgs,
                    method |-> "none", result |-> "returned", opens |-> 0,
                    pre |-> registry["update"]]
    /\ emitted' = NothingEmitted
    /\ firstSinks' =
           IF firstSinks["update"] = -1
           THEN [firstSinks EXCEPT !["update"] =
                    Len(update_configure(registry["update"]).handlers)]
           ELSE firstSinks
    /\ UNCHANGED objects

\* A severity method called on a ScriptLogger object that was returned.
Log ==
    \E name \in objects, method \in Methods :
        /\ emitted' = Logger_log(registry[name], method_level(method),
                                 method = "exception")
        /\ lastCall' = [op |-> "log", name |-> name, args |-> NoArgs,
                        method |-> method, result |-> "returned",
                        opens |-> 0, pre |-> registry[name]]
        /\ UNCHANGED <<registry, objects, firstSinks>>

NextLogger ==
    \/ Construct /\ UNCHANGED scriptVars
    \/ ConstructConsole /\ UNCHANGED scriptVars
    \/ ConstructConsoleAndFile /\ UNCHANGED scriptVars
    \/ UpdateMainConfigure /\ UNCHANGED scriptVars
    \/ Log /\ UNCHANGED scriptVars

SpecLogger == InitLogger /\ [][NextLogger]_vars

-----------------------------------------------------------------------------
(* One run of one script. *)

Scripts == {"pg_upgrade", "legacy", "update"}

ScriptNames == {"pg_upgrade", "update"}

\* The logger name each script logs under.
logger_name(scr) == IF scr = "update" THEN "update" ELSE "pg_upgrade"

\* The script's log file path (LOG_PATH; the legacy script's log_file) is
\* drawn from FilePaths: the logs directory may be missing.
InitScript ==
    /\ registry = [n \in ScriptNames |-> NewLogger]
    /\ objects = {}
    /\ lastCall = NoCall
    /\ emitted = NothingEmitted
    /\ firstSinks = [n \in ScriptNames |-> -1]
    /\ script \in Scripts
    /\ pc = "setup_logger"
    /\ proc = NewProc
    /\ fs \in [backup_file : {"absent"},
               new_datadir : {"absent", "empty", "populated"}]
    /\ lastRun = NoRun
    /\ disk = NoDisk
    /\ linking = NoLink

\* Where main goes after a step: on, or nowhere once the process has ended.
goto(p, label) == IF p.term = "running" THEN label ELSE "halt"

TheLogger == registry[logger_name(script)]

\* scripts/pg_upgrade.py setup_logger: level, propagate, a console and a file
\* handler added unconditionally, then the first line.
setup_logger(logger, log_file) ==
    LET l1 == [logger EXCEPT !.level = INFO, !.propagate = FALSE,
                             !.handlers = Append(@, StreamHandler("default"))]
    IN  IF CanOpen(log_file)
        THEN [logger |-> [l1 EXCEPT !.handlers =
                             Append(@, FileHandler(log_file, "default"))],
              raised |-> "none"]
        ELSE [logger |-> l1, raised |-> "OSError"]

\* pg_upgrade main, steps 1.0 to 3.0 (both scripts): the logger, then the
\* "Logging to" and "Starting PostgreSQL upgrade" lines.
SetupLogger ==
    /\ pc = "setup_logger"
    /\ script \in {"pg_upgrade", "legacy"}
    /\ \E log_file \in FilePaths :
        LET r == IF script = "legacy"
                 THEN setup_logger(registry["pg_upgrade"], log_file)
                 ELSE LET c == ScriptLogger_init(registry, "pg_upgrade",
                                   ScriptLogger_log_to_console_and_file(
                                       log_file, INFO, FALSE, TRUE))
                      IN  [logger |-> c.registry["pg_upgrade"],
                           raised |-> c.raised]
            p == IF r.raised # "none"
                 THEN uncaught(proc, r.raised)
                 ELSE logLine(logLine(proc, r.logger, INFO, "Logging to", ""),
                              r.logger, INFO, "Starting PostgreSQL upgrade", "")
        IN  /\ registry' = [registry EXCEPT !["pg_upgrade"] = r.logger]
            /\ objects' = IF script = "pg_upgrade" /\ r.raised = "none"
                          THEN objects \cup {"pg_upgrade"} ELSE objects
            /\ proc' = p
            /\ pc' = goto(p, "brew_prefix")
    /\ UNCHANGED <<lastCall, emitted, firstSinks, script, fs, lastRun>>

\* get_brew_prefix (and the legacy script's inline lookup): subprocess.run
\* with check=True and no except clause, then the prefix and path lines.
get_brew_prefix(p, logger, out) ==
    LET r == subprocess_run(p, "brew --prefix", out, TRUE)
    IN  IF r.raised # "none"
        THEN uncaught(r.proc, r.raised)
        ELSE logLine(logLine(logLine(logLine(logLine(r.proc,
                 logger, INFO, "Homebrew prefix", ""),
                 logger, INFO, "Old bindir", ""),
                 logger, INFO, "New bindir", ""),
                 logger, INFO, "Old datadir", ""),
                 logger, INFO, "New datadir", "")

BrewPrefix ==
    /\ pc = "brew_prefix"
    /\ \E out \in Outcomes :
        LET p == get_brew_prefix(proc, TheLogger, out)
        IN  /\ proc' = p
            /\ pc' = goto(p, "install")
    /\ UNCHANGED <<loggerVars, script, fs, lastRun>>

\* install_brew_formula: brew list --versions without check; a non-zero exit
\* means "not installed" and leads to brew install through the runner.
InstallFormula ==
    /\ pc = "install"
    /\ \E listed \in Outcomes, out \in Outcomes :
        LET p0 == logLine(proc, TheLogger, INFO, "Ensuring installed", "")
            r == subprocess_run(p0, "brew list --versions new", listed, FALSE)
        IN  IF r.raised # "none"
            THEN /\ out = NoOutcome
                 /\ proc' = uncaught(r.proc, r.raised)
                 /\ pc' = "halt"
                 /\ UNCHANGED lastRun
            ELSE IF r.returncode # 0
            THEN LET p1 == logLine(r.proc, TheLogger, INFO, "not installed", "")
                     p2 == run_of(script, p1, TheLogger, "brew install new", out)
                 IN  /\ proc' = p2
                     /\ pc' = goto(p2, "start_old")
                     /\ lastRun' = RunRecord(runner_of(script),
                                       "brew install new", FALSE, out, p1, p2)
            ELSE /\ out = NoOutcome
                 /\ proc' = logLine(r.proc, TheLogger, INFO,
                                    "already installed", "")
                 /\ pc' = "start_old"
                 /\ UNCHANGED lastRun
    /\ UNCHANGED <<loggerVars, script, fs>>

\* A step of main that is one informational line (when it has one) and one
\* runner call.
RunStep(here, banner, cmd, next) ==
    /\ pc = here
    /\ \E out \in Outcomes :
        LET p1 == IF banner = "" THEN proc
                  ELSE logLine(proc, TheLogger, INFO, banner, "")
            p2 == run_of(script, p1, TheLogger, cmd, out)
        IN  /\ proc' = p2
            /\ pc' = goto(p2, next)
            /\ lastRun' = RunRecord(runner_of(script), cmd, FALSE, out, p1, p2)
    /\ UNCHANGED <<loggerVars, script>>

\* main 7.0: make sure the old service runs for the backup.
StartOld ==
    /\ RunStep("start_old", "Ensure old service is running",
               "brew services start old", "backup")
    /\ UNCHANGED fs

\* backup_pg_databases: the backup file is opened for writing, pg_dumpall
\* writes to it; on CalledProcessError the partial file is removed and the
\* process exits with the child's code.
backup_pg_databases(p, files, logger, out) ==
    LET p1 == logLine(logLine(p, logger, INFO, "Creating backup with", ""),
                      logger, INFO, "Backup file", "")
        r == subprocess_run(p1, "pg_dumpall", out, TRUE)
    IN  CASE r.raised = "CalledProcessError" ->
                [proc |-> sys_exit(logLine(r.proc, logger, ERROR,
                              "Backup failed. Removing partial file", ""),
                              r.returncode),
                 fs |-> [files EXCEPT !.backup_file = "absent"]]
          [] r.raised = "OSError" ->
                [proc |-> uncaught(r.proc, "OSError"),
                 fs |-> [files EXCEPT !.backup_file = "empty"]]
          [] OTHER ->
                [proc |-> logLine(r.proc, logger, INFO, "Backup complete.", ""),
                 fs |-> [files EXCEPT !.backup_file = "complete"]]

\* The legacy script's inline backup: no except clause, the file stays.
legacy_backup(p, files, logger, out) ==
    LET p1 == logLine(logLine(p, logger, INFO, "Creating backup with", ""),
                      logger, INFO, "Backup file", "")
        r == subprocess_run(p1, "pg_dumpall", out, TRUE)
    IN  IF r.raised # "none"
        THEN [proc |-> uncaught(r.proc, r.raised),
              fs |-> [files EXCEPT !.backup_file =
                         IF out.launched THEN "partial" ELSE "empty"]]
        ELSE [proc |-> logLine(r.proc, logger, INFO, "Backup complete.", ""),
              fs |-> [files EXCEPT !.backup_file = "complete"]]

Backup ==
    /\ pc = "backup"
    /\ \E out \in Outcomes :
        LET r == IF script = "legacy"
                 THEN legacy_backup(proc, fs, TheLogger, out)
                 ELSE backup_pg_databases(proc, fs, TheLogger, out)
        IN  /\ proc' = r.proc
            /\ fs' = r.fs
            /\ pc' = goto(r.proc, "stop_old")
    /\ UNCHANGED <<loggerVars, script, lastRun>>

\* main 9.0: stop the old service.
StopOld ==
    /\ RunStep("stop_old", "", "brew services stop old", "initdb")
    /\ UNCHANGED fs

\* init_new_datadir testing only for a missing directory (a fault to detect).
needs_initdb_absent_only(files) == files.new_datadir = "absent"

\* init_new_datadir: initdb when the directory is missing or empty.
needs_initdb(files) ==
    files.new_datadir = "absent" \/ files.new_datadir = "empty"

InitNewDatadir ==
    /\ pc = "initdb"
    /\ IF needs_initdb(fs)
       THEN /\ RunStep("initdb", "Initializing new data directory (if empty)",
                       "initdb -D new_datadir", "pg_upgrade")
            /\ fs' = IF lastRun'.returned
                     THEN [fs EXCEPT !.new_datadir = "populated"]
                     ELSE fs
       ELSE /\ proc' = logLine(logLine(proc, TheLogger, INFO,
                           "Initializing new data directory (if empty)", ""),
                           TheLogger, INFO,
                           "Data directory exists; skipping initdb.", "")
            /\ pc' = "pg_upgrade"
            /\ UNCHANGED <<loggerVars, script, fs, lastRun>>

\* main 11: pg_upgrade itself.
RunPgUpgrade ==
    /\ RunStep("pg_upgrade", "Running pg_upgrade...", "pg_upgrade", "start_new")
    /\ UNCHANGED fs

\* main 12: start the new service.
StartNew ==
    /\ RunStep("start_new", "", "brew services start new", "finish")
    /\ UNCHANGED fs

\* The closing lines of main and its return 0: the python script warns at
\* WARNING, the legacy one writes "WARN:" at INFO.
Finish ==
    /\ pc = "finish"
    /\ LET p1 == logLine(logLine(proc, TheLogger, INFO, "Upgrade complete", ""),
                         TheLogger, INFO, "Backup stored at", "")
           p2 == logLine(p1, TheLogger,
                         IF script = "legacy" THEN INFO ELSE WARNING,
                         "Update zsh/env.zsh PATH", "")
       IN  proc' = [p2 EXCEPT !.term = "returned", !.exitStatus = 0]
    /\ pc' = "halt"
    /\ UNCHANGED <<loggerVars, script, fs, lastRun>>

\* update.py: the commands of update_uv and update_brew in call order, each
\* with the lines logged before it and its ignore_errors argument.
UpdateCommands ==
    << [banners |-> <<"UPDATE ASTRAL UV AND UV TOOL (ALL)", "UPDATE UV">>,
        cmd |-> "uv self update", ignore_errors |-> FALSE],
       [banners |-> <<"UPDATE UV TOOLS">>,
        cmd |-> "uv tool update --all", ignore_errors |-> FALSE],
       [banners |-> <<"UPDATE/UPGRADE HOMEBREW PACKAGES/CASKS",
                      "HOMEBREW INSTALLED PACKAGES/CASKS (brew list)">>,
        cmd |-> "brew list", ignore_errors |-> FALSE],
       [banners |-> <<"HOMEBREW OUTDATED PACKAGES/CASKS (brew outdated)">>,
        cmd |-> "brew outdated", ignore_errors |-> FALSE],
       [banners |-> <<"AUTOREMOVE UNUSED PACKAGE DEPENDENCIES (brew autoremove)">>,
        cmd |-> "brew autoremove", ignore_errors |-> FALSE],
       [banners |-> <<"UPDATE HOMEBREW PACKAGES/CASKS (brew update)">>,
        cmd |-> "brew update", ignore_errors |-> FALSE],
       [banners |-> <<"UPGRADE HOMEBREW PACKAGES/CASKS (brew upgrade --greedy)">>,
        cmd |-> "brew upgrade --greedy", ignore_errors |-> FALSE],
       [banners |-> <<"CHECK HOMEBREW INSTALLS (brew doctor)">>,
        cmd |-> "brew doctor", ignore_errors |-> TRUE],
       [banners |-> <<"CLEANUP HOMEBREW (brew cleanup)">>,
        cmd |-> "brew cleanup", ignore_errors |-> FALSE],
       [banners |-> <<"DUMP HOMEBREW INSTALLS (brew bundle dump)">>,
        cmd |-> "brew bundle dump --force --file=Brewfile",
        ignore_errors |-> FALSE],
       [banners |-> <<"HOMEBREW MANAGED SERVICES (brew services list)">>,
        cmd |-> "brew services list", ignore_errors |-> FALSE] >>

RECURSIVE logBanners(_, _, _)
logBanners(p, logger, banners) ==
    IF banners = <<>> THEN p
    ELSE logBanners(logLine(p, logger, INFO, Head(banners), ""), logger,
                    Tail(banners))

\* update.py main, up to its first line.
UpdateSetup ==
    /\ pc = "setup_logger"
    /\ script = "update"
    /\ LET lg == update_configure(registry["update"])
       IN  /\ registry' = [registry EXCEPT !["update"] = lg]
           /\ proc' = logLine(proc, lg, INFO, "Starting uv and brew update.", "")
    /\ pc' = "update_1"
    /\ UNCHANGED <<objects, lastCall, emitted, firstSinks, script, fs, lastRun>>

update_pc(i) ==
    CASE i = 1 -> "update_1" [] i = 2 -> "update_2" [] i = 3 -> "update_3"
      [] i = 4 -> "update_4" [] i = 5 -> "update_5" [] i = 6 -> "update_6"
      [] i = 7 -> "update_7" [] i = 8 -> "update_8" [] i = 9 -> "update_9"
      [] i = 10 -> "update_10" [] i = 11 -> "update_11" [] OTHER -> "return"

\* One LOGGER.info banner group and the run_cmd call that follows it.
UpdateRun ==
    \E i \in 1..Len(UpdateCommands), out \in Outcomes :
        /\ pc = update_pc(i)
        /\ LET c == UpdateCommands[i]
               p1 == logBanners(proc, TheLogger, c.banners)
               p2 == update_run_cmd(p1, TheLogger, c.cmd, out, c.ignore_errors)
           IN  /\ proc' = p2
               /\ pc' = goto(p2, update_pc(i + 1))
               /\ lastRun' = RunRecord("update.run_cmd", c.cmd,
                                 c.ignore_errors, out, p1, p2)
        /\ UNCHANGED <<loggerVars, script, fs>>

\* update.py main returns None after update_brew: exit status 0.
UpdateReturn ==
    /\ pc = "return"
    /\ proc' = [proc EXCEPT !.term = "returned", !.exitStatus = 0]
    /\ pc' = "halt"
    /\ UNCHANGED <<loggerVars, script, fs, lastRun>>

\* The steps of the three scripts; none of them touches what symlinks.py links.
NextScript ==
    \/ SetupLogger /\ UNCHANGED linkVars
    \/ BrewPrefix /\ UNCHANGED linkVars
    \/ InstallFormula /\ UNCHANGED linkVars
    \/ StartOld /\ UNCHANGED linkVars
    \/ Backup /\ UNCHANGED linkVars
    \/ StopOld /\ UNCHANGED linkVars
    \/ InitNewDatadir /\ UNCHANGED linkVars
    \/ RunPgUpgrade /\ UNCHANGED linkVars
    \/ StartNew /\ UNCHANGED linkVars
    \/ Finish /\ UNCHANGED linkVars
    \/ UpdateSetup /\ UNCHANGED linkVars
    \/ UpdateRun /\ UNCHANGED linkVars
    \/ UpdateReturn /\ UNCHANGED linkVars

SpecScript == InitScript /\ [][NextScript]_vars

-----------------------------------------------------------------------------
(* Runs of symlinks.py over one home directory. *)

\* What may be at a pair's source and at its destination before the script
\* first runs.
SrcStates == {RegularFile, Directory({"entry"}), Absent}

DstStates(pair) ==
    {Absent, RegularFile, Directory({"entry"}), Symlink(OtherFile),
     Symlink(OtherDir), Symlink(Missing), Symlink(pair.src)}

\* The entries of a home directory and repository given what is at each
\* pair's source and destination.
NodesOf(srcs, dsts) ==
    [path \in Paths |->
        CASE path = OtherFile -> RegularFile
          [] path = OtherDir -> Directory({"entry"})
          [] path = Missing -> Absent
          [] path[1] = "repo" -> srcs[path[2]]
          [] OTHER -> dsts[path[2]]]

InitialNodes ==
    {NodesOf(srcs, dsts) :
        srcs \in [1..MaxPairs -> SrcStates],
        dsts \in {f \in [1..MaxPairs ->
                            UNION {DstStates(path_pairs[i]) : i \in 1..MaxPairs}] :
                     \A i \in 1..MaxPairs : f[i] \in DstStates(path_pairs[i])}}

InitSymlink ==
    /\ registry = [n \in {"symlinks"} |-> NewLogger]
    /\ objects = {}
    /\ lastCall = NoCall
    /\ emitted = NothingEmitted
    /\ firstSinks = [n \in {"symlinks"} |-> -1]
    /\ script = "symlinks"
    /\ pc = "setup_logger"
    /\ proc = NewProc
    /\ fs = NewFs
    /\ lastRun = NoRun
    /\ disk \in [nodes : InitialNodes, home_writable : BOOLEAN]
    /\ linking = [NoLink EXCEPT !.runs = 1]

\* main up to its loop: the console logger, then the path_pairs tuple, whose
\* construction validates every source outside any try block.
SymlinksSetup ==
    /\ pc = "setup_logger"
    /\ script = "symlinks"
    /\ LET c == ScriptLogger_init(registry, "symlinks",
                    [NoArgs EXCEPT !.log_to_console = TRUE, !.colorize = TRUE])
           invalid == \E i \in 1..MaxPairs :
                          SymlinkPair_post_init(disk, path_pairs[i]) # "none"
           p == IF invalid THEN uncaught(proc, "FileNotFoundError") ELSE proc
       IN  /\ registry' = c.registry
           /\ objects' = objects \cup {"symlinks"}
           /\ proc' = p
           /\ pc' = goto(p, "link")
    /\ linking' = [linking EXCEPT !.next = 1]
    /\ UNCHANGED <<lastCall, emitted, firstSinks, script, fs, lastRun, disk>>

\* One turn of main's loop: the "Linking" line, create_symlink, and the
\* "Failed" line for the two exceptions the loop catches.
LinkPair ==
    /\ pc = "link"
    /\ linking.next \in 1..MaxPairs
    /\ LET pair == path_pairs[linking.next]
           p1 == logLine(proc, registry["symlinks"], INFO, "Linking", "")
           r == create_symlink(disk, pair)
           p2 == CASE r.raised = "none" -> p1
                   [] r.raised \in {"FileNotFoundError", "PermissionError"} ->
                          logLine(p1, registry["symlinks"], ERROR, "Failed", "")
                   [] OTHER -> uncaught(p1, r.raised)
       IN  /\ disk' = r.disk
           /\ proc' = p2
           /\ pc' = goto(p2, "link")
           /\ linking' = [linking EXCEPT !.next = @ + 1,
                                         !.pair = linking.next,
                                         !.pre = disk,
                                         !.post = r.disk,
                                         !.raised = r.raised]
    /\ UNCHANGED <<loggerVars, script, fs, lastRun>>

\* The loop is exhausted: main returns.
SymlinksReturn ==
    /\ pc = "link"
    /\ linking.next = MaxPairs + 1
    /\ proc' = [proc EXCEPT !.term = "returned", !.exitStatus = 0]
    /\ pc' = "halt"
    /\ UNCHANGED <<loggerVars, script, fs, lastRun, disk, linking>>

\* The script is started again, a new process over the same home directory.
SymlinksRunAgain ==
    /\ pc = "halt"
    /\ script = "symlinks"
    /\ linking.runs < MaxRuns
    /\ registry' = [n \in {"symlinks"} |-> NewLogger]
    /\ objects' = {}
    /\ proc' = NewProc
    /\ pc' = "setup_logger"
    /\ linking' = [linking EXCEPT !.runs = @ + 1, !.next = 0]
    /\ UNCHANGED <<lastCall, emitted, firstSinks, script, fs, lastRun, disk>>

NextSymlink ==
    \/ SymlinksSetup
    \/ LinkPair
    \/ SymlinksReturn
    \/ SymlinksRunAgain

SpecSymlink == InitSymlink /\ [][NextSymlink]_vars

-----------------------------------------------------------------------------
(* Properties of the logging facade, checked under SpecLogger. *)

CtorOps == {"ScriptLogger", "log_to_console", "log_to_console_and_file"}

CountKind(handlers, kind) ==
    Cardinality({i \in 1..Len(handlers) : handlers[i].kind = kind})

\* At most one console sink and at most one file sink.
OneSetOfSinks(handlers) ==
    /\ CountKind(handlers, "console") <= 1
    /\ CountKind(handlers, "file") <= 1
    /\ Len(handlers) <= 2

\* C1 as stated: after any constructions under a name, the name holds as many
\* sinks as its first construction left, whatever the argument sets were, and
\* never more than one set of sinks.
C1_SameSinksAsFirstCall ==
    \A n \in DOMAIN registry :
        /\ firstSinks[n] # -1 => Len(registry[n].handlers) = firstSinks[n]
        /\ OneSetOfSinks(registry[n].handlers)

\* C1 amended: when the first construction under a name attached at least one
\* sink, every later construction under that name, whatever its arguments,
\* leaves the number of sinks what the first one left; and a name never holds
\* more than one set of sinks.
C1_SinksFixedOnceAttached ==
    \A n \in DOMAIN registry :
        /\ firstSinks[n] >= 1 => Len(registry[n].handlers) = firstSinks[n]
        /\ OneSetOfSinks(registry[n].handlers)

\* A second construction that asked for a file sink on a console-only logger.
C1_Witness ==
    /\ lastCall.op \in CtorOps
    /\ lastCall.pre.handlers # <<>>
    /\ lastCall.args.log_to_file = GoodPath
    /\ firstSinks[lastCall.name] = 1
    /\ Len(registry[lastCall.name].handlers) = 1

\* The sinks a constructor call asks for, in attachment order: the console
\* sink carries the colour formatter when colorize is set and the requested
\* formatter otherwise, the file sink always the requested formatter.
RequestedSinks(args) ==
    LET fmt == IF args.formatter = "None" THEN "default" ELSE args.formatter
    IN  (IF args.log_to_console
         THEN <<[kind |-> "console", target |-> "stdout",
                 formatter |-> IF args.colorize THEN "color" ELSE fmt]>>
         ELSE <<>>)
        \o (IF args.log_to_file # "None"
            THEN <<[kind |-> "file", target |-> args.log_to_file,
                    formatter |-> fmt]>>
            ELSE <<>>)

\* C2: a constructor call under a name that already has a sink returns and
\* leaves the registered logger (threshold, propagate flag, sinks and their
\* formatters) exactly as it was; a call that returns under a name with no
\* sink leaves the requested threshold, flag, sinks and formatters attached.
C2_ReentryUnchanged ==
    lastCall.op \in CtorOps =>
        IF lastCall.pre.handlers # <<>>
        THEN /\ registry[lastCall.name] = lastCall.pre
             /\ lastCall.result = "returned"
        ELSE lastCall.result = "returned" =>
                 /\ registry[lastCall.name].handlers =
                        RequestedSinks(lastCall.args)
                 /\ registry[lastCall.name].level = lastCall.args.level
                 /\ registry[lastCall.name].propagate = lastCall.args.propagate

\* A re-entry whose every argument differs from the registered configuration.
C2_Witness ==
    /\ lastCall.op = "ScriptLogger"
    /\ lastCall.pre.handlers = <<StreamHandler("default")>>
    /\ lastCall.args.level # lastCall.pre.level
    /\ lastCall.args.propagate # lastCall.pre.propagate
    /\ lastCall.args.colorize
    /\ lastCall.args.formatter = "custom"
    /\ lastCall.args.log_to_file = GoodPath
    /\ lastCall.result = "returned"

\* The severity the facade's contract gives each method.
Severity(method) ==
    CASE method = "debug" -> DEBUG
      [] method = "info" -> INFO
      [] method = "warning" -> WARNING
      [] method = "error" -> ERROR
      [] method = "critical" -> CRITICAL
      [] method = "exception" -> ERROR

\* C3: on a logger with threshold L and propagate off, a call below L hands
\* no record to any sink, and a call at or above L hands exactly one record
\* to each attached sink (and none to an ancestor).
C3_Threshold ==
    (/\ lastCall.op = "log"
     /\ registry[lastCall.name].level \in Levels
     /\ ~registry[lastCall.name].propagate) =>
        LET lg == registry[lastCall.name]
        IN  IF Severity(lastCall.method) < lg.level
            THEN emitted = NothingEmitted
            ELSE /\ Len(emitted.sinks) = Len(lg.handlers)
                 /\ \A i \in 1..Len(lg.handlers) :
                        /\ emitted.sinks[i].kind = lg.handlers[i].kind
                        /\ emitted.sinks[i].target = lg.handlers[i].target
                 /\ ~emitted.toParent

\* error() on a two-sink logger whose threshold is ERROR: one record each.
C3_Witness ==
    /\ lastCall.op = "log"
    /\ lastCall.method = "error"
    /\ registry[lastCall.name].level = ERROR
    /\ ~registry[lastCall.name].propagate
    /\ Len(registry[lastCall.name].handlers) = 2
    /\ Len(emitted.sinks) = 2

\* warning() under the same threshold: nothing reaches the two sinks.
C3_WitnessBelow ==
    /\ lastCall.op = "log"
    /\ lastCall.method = "warning"
    /\ registry[lastCall.name].level = ERROR
    /\ ~registry[lastCall.name].propagate
    /\ Len(registry[lastCall.name].handlers) = 2
    /\ emitted.sinks = <<>>

\* The colour the contract maps each severity to: cyan, green, yellow, red,
\* magenta (ANSI 36, 32, 33, 31, 35).
SeverityColor(sev) ==
    CASE sev = DEBUG -> "ESC[36m"
      [] sev = INFO -> "ESC[32m"
      [] sev = WARNING -> "ESC[33m"
      [] sev = ERROR -> "ESC[31m"
      [] sev = CRITICAL -> "ESC[35m"

EscapesIn(line) == {i \in 1..Len(line) : line[i] \in EscapeTokens}

ColoredConsoleAndFile(handlers) ==
    /\ Len(handlers) = 2
    /\ handlers[1] = StreamHandler("color")
    /\ handlers[2].kind = "file"
    /\ handlers[2].formatter = "default"

\* C4: on a console-plus-file logger built with colorize, every emitted
\* record's console line has the severity's colour escape right before the
\* severity token and the reset escape right after it and no other escape,
\* and the file line of the same record has the token and no escape at all.
C4_ColorOnConsoleOnly ==
    (/\ lastCall.op = "log"
     /\ ColoredConsoleAndFile(registry[lastCall.name].handlers)
     /\ emitted.sinks # <<>>) =>
        LET sev == Severity(lastCall.method)
            tok == getLevelName(sev)
            con == emitted.sinks[1].line
            fil == emitted.sinks[2].line
        IN  /\ Len(emitted.sinks) = 2
            /\ emitted.sinks[1].kind = "console"
            /\ emitted.sinks[2].kind = "file"
            /\ \E i \in 2..(Len(con) - 1) :
                   /\ con[i] = tok
                   /\ con[i - 1] = SeverityColor(sev)
                   /\ con[i + 1] = "ESC[0m"
                   /\ EscapesIn(con) = {i - 1, i + 1}
            /\ EscapesIn(fil) = {}
            /\ \E j \in 1..Len(fil) : fil[j] = tok

\* exception() emitted by a colourised console-plus-file logger.
C4_Witness ==
    /\ lastCall.op = "log"
    /\ lastCall.method = "exception"
    /\ ColoredConsoleAndFile(registry[lastCall.name].handlers)
    /\ Len(emitted.sinks) = 2

\* C10 as stated: every constructor call whose file path cannot be opened
\* fails with the I/O error.
C10_BadPathAlwaysRaises ==
    (/\ lastCall.op \in CtorOps
     /\ lastCall.args.log_to_file \in FilePaths
     /\ ~CanOpen(lastCall.args.log_to_file)) =>
        lastCall.result = "OSError"

\* C10 amended: a constructor call whose file path cannot be opened, under a
\* name that has no sink yet, fails with the I/O error after a single open
\* attempt, returns no object, and leaves no file sink and no substitute:
\* only the console sink, when one was asked for; under a name that already
\* has a sink the call returns without opening the file.
C10_BadPathRaisesOnFirstConfigure ==
    (/\ lastCall.op \in CtorOps
     /\ lastCall.args.log_to_file \in FilePaths
     /\ ~CanOpen(lastCall.args.log_to_file)) =>
        IF lastCall.pre.handlers = <<>>
        THEN /\ lastCall.result = "OSError"
             /\ lastCall.opens = 1
             /\ registry[lastCall.name].handlers =
                    RequestedSinks([lastCall.args EXCEPT !.log_to_file = "None"])
        ELSE /\ lastCall.result = "returned"
             /\ lastCall.opens = 0
             /\ registry[lastCall.name] = lastCall.pre

\* A failed construction that had already attached the console sink.
C10_Witness ==
    /\ lastCall.op = "log_to_console_and_file"
    /\ lastCall.result = "OSError"
    /\ lastCall.name \notin objects
    /\ Len(registry[lastCall.name].handlers) = 1

-----------------------------------------------------------------------------
(* Properties of the command runners, checked under SpecScript. *)

CountLevel(lines, level) ==
    Cardinality({i \in 1..Len(lines) :
                    lines[i].kind = "log" /\ lines[i].level = level})

ExecsIn(lines) == {i \in 1..Len(lines) : lines[i].kind = "exec"}

\* The runner call ended the process through sys.exit with the child's code,
\* its ERROR line being the last thing the process traced.
ExitedWithChildCode ==
    /\ ~lastRun.returned
    /\ proc.term = "sys_exit"
    /\ proc.exitStatus = lastRun.out.returncode
    /\ Len(proc.trace) >= 1
    /\ proc.trace[Len(proc.trace)].kind = "log"
    /\ proc.trace[Len(proc.trace)].level = ERROR
    /\ pc = "halt"

\* C5: a runner call whose child exits non-zero, ignore_errors off, logs
\* exactly one ERROR line and ends the process with the child's exit code;
\* it does not return and the script starts no further command.
C5_NonZeroExitTerminates ==
    (/\ lastRun.runner # "none"
     /\ lastRun.out.launched
     /\ lastRun.out.returncode # 0
     /\ ~lastRun.ignore_errors) =>
        /\ CountLevel(lastRun.lines, ERROR) = 1
        /\ ExitedWithChildCode

\* The same statement for the two runners that have an except clause.
C5_RunCmdTerminates ==
    lastRun.runner \in {"pg_upgrade.run_cmd", "update.run_cmd"} =>
        C5_NonZeroExitTerminates

\* C6: a runner call whose child exits 0 returns to its caller, logs exactly
\* one INFO line, the invocation trace, ahead of the child's start, and no
\* WARNING or ERROR line.
C6_ZeroExitOneInfoLine ==
    (/\ lastRun.runner # "none"
     /\ lastRun.out.launched
     /\ lastRun.out.returncode = 0) =>
        /\ lastRun.returned
        /\ CountLevel(lastRun.lines, INFO) = 1
        /\ CountLevel(lastRun.lines, WARNING) = 0
        /\ CountLevel(lastRun.lines, ERROR) = 0
        /\ Len(lastRun.lines) = 2
        /\ lastRun.lines[1] = LogEvent(INFO, "Running", lastRun.cmd)
        /\ lastRun.lines[2] = ExecEvent(lastRun.cmd)

\* The same statement for the pg_upgrade runners, which do log the trace.
C6_PgRunnersTrace ==
    lastRun.runner \in {"pg_upgrade.run_cmd", "run"} => C6_ZeroExitOneInfoLine

\* C7: a runner call with ignore_errors set whose child exits non-zero logs
\* exactly one WARNING line and no ERROR line and returns: the process is
\* still running and main stands at its next command.
C7_IgnoredFailureWarns ==
    (/\ lastRun.runner # "none"
     /\ lastRun.out.launched
     /\ lastRun.out.returncode # 0
     /\ lastRun.ignore_errors) =>
        /\ CountLevel(lastRun.lines, WARNING) = 1
        /\ CountLevel(lastRun.lines, ERROR) = 0
        /\ lastRun.returned
        /\ proc.term = "running"
        /\ proc.exitStatus = -1
        /\ pc # "halt"

\* brew doctor exited non-zero, was warned about, and brew cleanup was
\* started after it.
C7_Witness ==
    \E i, j \in 1..Len(proc.trace) :
        /\ i < j
        /\ proc.trace[i] = LogEvent(WARNING, "Command exited with",
                                    "brew doctor")
        /\ proc.trace[j] = ExecEvent("brew cleanup")

\* C8: a runner call whose child cannot be launched ends in the uncaught
\* OSError, whatever ignore_errors is: no WARNING or ERROR line, no child
\* start, no sys.exit, no return to the caller.
C8_LaunchFailurePropagates ==
    (/\ lastRun.runner # "none"
     /\ ~lastRun.out.launched) =>
        /\ proc.term = "uncaught"
        /\ proc.fault = "OSError"
        /\ CountLevel(lastRun.lines, WARNING) = 0
        /\ CountLevel(lastRun.lines, ERROR) = 0
        /\ ExecsIn(lastRun.lines) = {}
        /\ ~lastRun.returned
        /\ pc = "halt"

\* brew doctor, run with ignore_errors, could not be launched.
C8_Witness ==
    /\ lastRun.runner = "update.run_cmd"
    /\ lastRun.ignore_errors
    /\ ~lastRun.out.launched
    /\ proc.fault = "OSError"

\* A pg_upgrade.py runner call that could not launch its child.
C8_WitnessPg ==
    /\ lastRun.runner = "pg_upgrade.run_cmd"
    /\ ~lastRun.out.launched
    /\ proc.fault = "OSError"

SuccessTraced ==
    \E i \in 1..Len(proc.trace) :
        proc.trace[i] = LogEvent(INFO, "Upgrade complete", "")

\* C9: a run of pg_upgrade.py in which no I/O or launch error occurs ends
\* either with the success trace logged, or with an ERROR line as its last
\* trace entry and the exit status of the command that failed.
C9_EndsInSuccessOrErrorExit ==
    (/\ script = "pg_upgrade"
     /\ proc.term # "running"
     /\ proc.fault # "OSError") =>
        \/ /\ proc.term = "returned"
           /\ proc.exitStatus = 0
           /\ SuccessTraced
        \/ /\ proc.term = "sys_exit"
           /\ proc.returncode # 0
           /\ proc.exitStatus = proc.returncode
           /\ proc.trace[Len(proc.trace)].kind = "log"
           /\ proc.trace[Len(proc.trace)].level = ERROR

\* The same statement once the Homebrew prefix lookup has succeeded.
C9_AfterPrefixLookup ==
    (\E i \in 1..Len(proc.trace) :
        proc.trace[i] = LogEvent(INFO, "Homebrew prefix", ""))
        => C9_EndsInSuccessOrErrorExit

-----------------------------------------------------------------------------
(* Properties of the scripts' command sequences, checked under SpecScript. *)

\* The commands launched so far, in launch order.
Launched == [i \in 1..Len(proc.children) |-> proc.children[i].cmd]

\* Where a command stands in a sequence of commands (0: not in it).
PositionIn(order, cmd) ==
    IF \E k \in 1..Len(order) : order[k] = cmd
    THEN CHOOSE k \in 1..Len(order) : order[k] = cmd
    ELSE 0

\* The launched commands follow the given order: each is in it, and each
\* stands later in it than the one launched before.
FollowsOrder(order) ==
    /\ \A i \in 1..Len(Launched) : PositionIn(order, Launched[i]) # 0
    /\ \A i \in 1..(Len(Launched) - 1) :
           PositionIn(order, Launched[i]) < PositionIn(order, Launched[i + 1])

\* Some launch of the command, and whether one of them exited 0.
WasLaunched(cmd) == \E i \in 1..Len(Launched) : Launched[i] = cmd

ExitedZero(cmd) ==
    \E i \in 1..Len(proc.children) :
        proc.children[i] = [cmd |-> cmd, returncode |-> 0]

\* The external steps of the PostgreSQL upgrade in the order of the module
\* docstring (after the Homebrew prefix lookup).
UpgradeOrder ==
    << "brew --prefix", "brew list --versions new", "brew install new",
       "brew services start old", "pg_dumpall", "brew services stop old",
       "initdb -D new_datadir", "pg_upgrade", "brew services start new" >>

\* C11: in every run of either pg_upgrade script the external steps are
\* launched in the order install, start old, pg_dumpall, stop old, initdb,
\* pg_upgrade, start new; pg_upgrade is launched only after the backup
\* completed and the stop command exited 0, the new service only after
\* pg_upgrade exited 0; and a run that returns has gone through every step.
C11_UpgradeStepOrder ==
    script \in {"pg_upgrade", "legacy"} =>
        /\ FollowsOrder(UpgradeOrder)
        /\ WasLaunched("pg_upgrade") =>
               /\ ExitedZero("pg_dumpall")
               /\ fs.backup_file = "complete"
               /\ ExitedZero("brew services stop old")
        /\ WasLaunched("brew services start new") => ExitedZero("pg_upgrade")
        /\ proc.term = "returned" =>
               \A c \in {"brew services start old", "pg_dumpall",
                         "brew services stop old", "pg_upgrade",
                         "brew services start new"} : ExitedZero(c)

\* A run of pg_upgrade.py that installed the formula, ran initdb and
\* returned.
C11_Witness ==
    /\ script = "pg_upgrade"
    /\ proc.term = "returned"
    /\ Len(Launched) = Len(UpgradeOrder)

\* The commands of the update script in the claimed order.
UpdateOrder ==
    << "uv self update", "uv tool update --all", "brew list", "brew outdated",
       "brew autoremove", "brew update", "brew upgrade --greedy",
       "brew doctor", "brew cleanup",
       "brew bundle dump --force --file=Brewfile", "brew services list" >>

\* C12: the update script launches its commands in the fixed order, none
\* skipped; a command other than brew doctor that exits non-zero is the last
\* one launched and the process ends with that exit code; brew doctor
\* exiting non-zero leaves the process running at brew cleanup (which is
\* then launched unless the launch itself fails), and a run that returns has
\* launched all eleven commands.
C12_UpdateSetE ==
    script = "update" =>
        /\ Len(Launched) <= Len(UpdateOrder)
        /\ Launched = SubSeq(UpdateOrder, 1, Len(Launched))
        /\ \A i \in 1..Len(proc.children) :
               (/\ proc.children[i].returncode # 0
                /\ proc.children[i].cmd # "brew doctor") =>
                   /\ i = Len(proc.children)
                   /\ proc.term = "sys_exit"
                   /\ proc.exitStatus = proc.children[i].returncode
                   /\ pc = "halt"
        /\ (/\ Len(proc.children) = 8
            /\ proc.children[8].returncode # 0) =>
               \/ proc.term = "running" /\ pc = "update_9"
               \/ lastRun.cmd = "brew cleanup" /\ proc.fault = "OSError"
        /\ proc.term = "returned" => Len(Launched) = Len(UpdateOrder)

\* brew doctor exited non-zero and the run still went on to the end.
C12_Witness ==
    /\ script = "update"
    /\ proc.term = "returned"
    /\ \E i \in 1..Len(proc.children) :
           /\ proc.children[i].cmd = "brew doctor"
           /\ proc.children[i].returncode # 0

\* A command other than brew doctor exited with the largest code explored.
C12_WitnessExit ==
    /\ script = "update"
    /\ proc.term = "sys_exit"
    /\ proc.exitStatus = MaxExit
    /\ Len(Launched) = 10

\* The log line of the branch that skips initdb.
SkippedInitdb ==
    \E i \in 1..Len(proc.trace) :
        proc.trace[i] = LogEvent(INFO, "Data directory exists; skipping initdb.", "")

\* C14: the step that checks the new data directory hands initdb to the
\* runner if and only if the directory is missing or empty at that moment;
\* when it holds an entry no child is launched, the run goes on, and the
\* step after it hands pg_upgrade to the runner.
C14_InitdbIffMissingOrEmpty ==
    [][ /\ pc = "initdb" =>
            /\ (lastRun'.cmd = "initdb -D new_datadir")
                   <=> (fs.new_datadir \in {"absent", "empty"})
            /\ fs.new_datadir = "populated" =>
                   /\ proc'.children = proc.children
                   /\ proc'.term = "running"
                   /\ pc' = "pg_upgrade"
                   /\ fs' = fs
        /\ pc = "pg_upgrade" => lastRun'.cmd = "pg_upgrade" ]_vars

\* A run that found the directory populated, skipped initdb and launched
\* pg_upgrade.
C14_Witness ==
    /\ script \in {"pg_upgrade", "legacy"}
    /\ SkippedInitdb
    /\ ~WasLaunched("initdb -D new_datadir")
    /\ WasLaunched("pg_upgrade")
    /\ fs.new_datadir = "populated"

\* A run that found the directory empty and launched initdb on it.
C14_WitnessEmpty ==
    /\ script \in {"pg_upgrade", "legacy"}
    /\ WasLaunched("initdb -D new_datadir")
    /\ ~SkippedInitdb
    /\ pc = "pg_upgrade"

\* The backup step was entered (its second line names the backup file) and
\* did not reach its closing line.
BackupAttempted ==
    \E i \in 1..Len(proc.trace) : proc.trace[i] = LogEvent(INFO, "Backup file", "")

BackupCompleted ==
    \E i \in 1..Len(proc.trace) :
        proc.trace[i] = LogEvent(INFO, "Backup complete.", "")

NothingAfterBackup ==
    /\ ~WasLaunched("brew services stop old")
    /\ ~WasLaunched("initdb -D new_datadir")
    /\ ~WasLaunched("pg_upgrade")

\* C15: whenever the backup step of pg_upgrade.py has not completed when the
\* process has ended, no file is left at the backup path, the process has
\* exited with pg_dumpall's exit code, and the old service's stop, initdb
\* and pg_upgrade were never launched.
C15_FailedBackupLeavesNoFile ==
    (/\ script = "pg_upgrade"
     /\ BackupAttempted
     /\ ~BackupCompleted
     /\ proc.term # "running") =>
        /\ fs.backup_file = "absent"
        /\ proc.term = "sys_exit"
        /\ WasLaunched("pg_dumpall")
        /\ proc.exitStatus = proc.returncode
        /\ NothingAfterBackup

\* What does hold of the backup step: when pg_dumpall was launched and
\* exited non-zero the file is gone and the exit code is pg_dumpall's, and
\* in every failure nothing after the backup is launched.
C15_NonZeroExitRemovesFile ==
    (/\ script = "pg_upgrade"
     /\ BackupAttempted
     /\ ~BackupCompleted
     /\ proc.term # "running") =>
        /\ NothingAfterBackup
        /\ WasLaunched("pg_dumpall") =>
               /\ fs.backup_file = "absent"
               /\ proc.term = "sys_exit"
               /\ proc.returncode # 0
               /\ proc.exitStatus = proc.returncode

\* pg_dumpall exited non-zero and the partial file was removed.
C15_WitnessRemoved ==
    /\ script = "pg_upgrade"
    /\ BackupAttempted
    /\ ~BackupCompleted
    /\ proc.term = "sys_exit"
    /\ proc.exitStatus = MaxExit
    /\ fs.backup_file = "absent"

-----------------------------------------------------------------------------
(* Properties of create_symlink, checked under SpecSymlink. *)

\* rm -rf path: the name is removed whatever it is, a link never followed, a
\* missing name no error; without write permission on the parent a real
\* directory is emptied and stays.
rm_rf(d, path) ==
    CASE d.nodes[path].type = "absent" -> d
      [] ~d.home_writable ->
            IF d.nodes[path].type = "dir"
            THEN [d EXCEPT !.nodes[path] = Directory({})]
            ELSE d
      [] OTHER -> [d EXCEPT !.nodes[path] = Absent]

\* ln -nfs src dst: a real directory at dst receives the link inside it;
\* anything else at dst, a link to a directory included (-n), is replaced
\* (-f) by a link naming src.
ln_nfs(d, src, dst) ==
    CASE d.nodes[dst].type = "dir" ->
            [disk |-> [d EXCEPT !.nodes[dst] = Directory(@.entries \cup {"src"})],
             status |-> 0]
      [] ~d.home_writable -> [disk |-> d, status |-> 1]
      [] OTHER ->
            [disk |-> [d EXCEPT !.nodes[dst] = Symlink(src)], status |-> 0]

\* The shell line of create_symlink's docstring.
rm_rf_ln_nfs(d, pair) == ln_nfs(rm_rf(d, pair.dst), pair.src, pair.dst)

\* The latest create_symlink call, once one has been made.
LinkedPair == path_pairs[linking.pair]

LinkCalled == script = "symlinks" /\ linking.pair # 0

\* C13: whatever was at dst (nothing, a file, a directory with contents, a
\* link to a file, to a directory or to nothing, or already the link to
\* src), a create_symlink call in a writable home succeeds, and after a
\* successful call the filesystem is the one 'rm -rf dst; ln -nfs src dst'
\* leaves: dst is a link naming src, every other path, the former target of
\* dst included, is as it was, and a further call changes nothing.
C13_CreateSymlinkIsRmLn ==
    LinkCalled =>
        /\ linking.pre.home_writable => linking.raised = "none"
        /\ linking.raised = "none" =>
               /\ linking.post = rm_rf_ln_nfs(linking.pre, LinkedPair).disk
               /\ rm_rf_ln_nfs(linking.pre, LinkedPair).status = 0
               /\ linking.post.nodes[LinkedPair.dst] = Symlink(LinkedPair.src)
               /\ \A path \in Paths \ {LinkedPair.dst} :
                      linking.post.nodes[path] = linking.pre.nodes[path]
               /\ create_symlink(linking.post, LinkedPair)
                      = [disk |-> linking.post, raised |-> "none"]

\* The second run's call on a destination the first run linked: it succeeded
\* and left the filesystem as it found it.
C13_Witness ==
    /\ LinkCalled
    /\ linking.runs = 2
    /\ linking.raised = "none"
    /\ linking.pre.nodes[LinkedPair.dst] = Symlink(LinkedPair.src)
    /\ linking.post = linking.pre

\* A successful first call for each prior state of dst the claim lists.
C13_WitnessAbsent ==
    /\ LinkCalled /\ linking.raised = "none"
    /\ linking.pre.nodes[LinkedPair.dst] = Absent

C13_WitnessFile ==
    /\ LinkCalled /\ linking.raised = "none"
    /\ linking.pre.nodes[LinkedPair.dst] = RegularFile

C13_WitnessDirectory ==
    /\ LinkCalled /\ linking.raised = "none"
    /\ linking.pre.nodes[LinkedPair.dst] = Directory({"entry"})

C13_WitnessLinkToFile ==
    /\ LinkCalled /\ linking.raised = "none"
    /\ linking.pre.nodes[LinkedPair.dst] = Symlink(OtherFile)
    /\ linking.post.nodes[OtherFile] = RegularFile

C13_WitnessLinkToDirectory ==
    /\ LinkCalled /\ linking.raised = "none"
    /\ linking.pre.nodes[LinkedPair.dst] = Symlink(OtherDir)
    /\ linking.post.nodes[OtherDir] = Directory({"entry"})

C13_WitnessDanglingLink ==
    /\ LinkCalled /\ linking.raised = "none"
    /\ linking.pre.nodes[LinkedPair.dst] = Symlink(Missing)

====
